---- MODULE Spec2Model ----
(***************************************************************************)
(* A model of the harvesting engine of lca.data_collection:                *)
(*   - the request executor  make_github_http_request  with its retry      *)
(*     decorator (github_collection.py),                                   *)
(*   - the cursor walker     RepoObjectsProvider.process_repo and          *)
(*     _collect_repo_data,                                                 *)
(*   - the concurrent scheduler  process_repos / _process_repos  and       *)
(*     process_repositories / process_repositories_in_batches,             *)
(*   - the item sink         dump_data / dump_repo_data_to_jsonl.          *)
(*                                                                         *)
(* Three specifications share the state and the code's operators:          *)
(*   Spec       one work item, every attempt of every request a step;      *)
(*   SpecSched  a work list, one whole request (all its attempts) a step;  *)
(*   SpecSink   the item sink alone, one dump_data call a step.            *)
(*                                                                         *)
(* Optional values are sequences: <<>> is Python's None, <<v>> is v.       *)
(* Responses are JSON objects, as the GitHub API sends them.               *)
(***************************************************************************)
EXTENDS Integers, Sequences, FiniteSets, TLC

VARIABLES
    github_tokens,  \* the credential list
    repos,          \* the work list: a sequence of <<owner, name>>
    batch_size,     \* <<>> (no batching) or <<B>>
    chain,          \* the server: number of pages in every resource's stream
    st,             \* per work item: "new", "run", "done", "raised", "cancelled"
    tok,            \* per work item: the token its coroutine was created with
    url,            \* per work item: current_url of its walk
    res,            \* per work item: the value its task returned (an error) or <<>>
    call,           \* per work item: the request in progress (retry state)
    files,          \* the data folder: path -> sequence of written lines
    sched,          \* the scheduler: its position, its group, its result
    hist            \* the data folder's history: its first content and, per
                    \* path, the dump_data calls made on it

vars == <<github_tokens, repos, batch_size, chain, st, tok, url, res, call, files, sched,
          hist>>

---------------------------------------------------------------------------
(* Program constants *)

GITHUB_API_TRIES_LIMIT == 10

OTHER_ERRORS_SLEEP_TIME == 10

TIME_DIVERGENCE_CONST == 300

BAN_SLEEP_TIME == 600

NotRetryableStatuses == {404, 422, 409, 451}

(* Bounds of the model *)

MaxPages == 3

ItemsPerPage == 2

MaxTokens == 2

MaxRepos == 4

MaxParallel == 3

SchedPages == 1

MaxBatch == 2

---------------------------------------------------------------------------
(* Resources, URLs and the server's pages *)

None == <<>>

Some(v) == <<v>>

IsNone(o) == o = <<>>

Val(o) == o[1]

Owners == {<<"a">>}

Names == {<<"x">>, <<"y">>, <<"z">>}

Resources == Owners \X Names

\* f"{GITHUB_API_URL}/repos/{owner}/{name}/{self.data}?per_page=100&state=all"
StartUrl(owner, name) == <<owner, name, 1>>

\* the items the server holds on page p of a resource
PageItems(owner, name, p) == [j \in 1..ItemsPerPage |-> <<owner, name, p, j>>]

\* the `next` link the server sends with page u, if any
NextLink(u) == IF u[3] < chain THEN Some(<<u[1], u[2], u[3] + 1>>) ELSE None

SECONDARY_PREFIX == "You have exceeded a secondary rate limit."

PRIMARY_PREFIX == "API rate limit exceeded"

\* message.startswith(prefix): a message is its leading phrase and the rest
StartsWith(message, prefix) == Len(message) >= 1 /\ message[1] = prefix

Messages ==
    { <<SECONDARY_PREFIX, " Please wait.">>,
      <<PRIMARY_PREFIX, " for user ID 1.">>,
      <<"Not Found">> }

Times == {1000, 2000}

ResetTimes == {1005, 1500}

RetryAfters == {0, 60}

Response(fail, status, message, retry_after, reset, next, data) ==
    [fail |-> fail, status |-> status, message |-> message,
     retry_after |-> retry_after, reset |-> reset, next |-> next, data |-> data]

\* the 200 response of the server for page u
OkResponse(u) ==
    Response(FALSE, 200, None, None, None, NextLink(u), PageItems(u[1], u[2], u[3]))

\* aiohttp.ClientError raised by the request
TransportFailure == Response(TRUE, 0, None, None, None, None, <<>>)

\* asyncio.TimeoutError raised by the request when the session's timeout
\* expires; message holds the class of a failure that is not a ClientError
TimeoutFailure == Response(TRUE, 0, Some(<<"asyncio.TimeoutError">>), None, None, None, <<>>)

RateLimitResponses ==
    { Response(FALSE, 403, Some(m), ra, rs, None, <<>>) :
        m \in Messages,
        ra \in {None} \cup {Some(x) : x \in RetryAfters},
        rs \in {None} \cup {Some(x) : x \in ResetTimes} }
    \cup { Response(FALSE, 403, None, None, None, None, <<>>) }

StatusResponses ==
    { Response(FALSE, s, m, None, None, None, <<>>) :
        s \in NotRetryableStatuses \cup {504, 500, 502, 202},
        m \in {None, Some(<<"Not Found">>)} }

\* everything the server may answer to a request for u
Responses(u) ==
    {OkResponse(u), TransportFailure, TimeoutFailure} \cup RateLimitResponses \cup StatusResponses

---------------------------------------------------------------------------
(* One attempt: the body of make_github_http_request *)

Outcome(kind, data, next, error) ==
    [kind |-> kind, data |-> data, next |-> next, error |-> error]

\* what one attempt gives: the returned value (or a raised exception) and the
\* sleep it made, if any
Attempted(out, slept) == [out |-> out, slept |-> slept, at |-> None]

\* an attempt that read the clock: time.time() gave now
AttemptedAt(out, slept, now) == [out |-> out, slept |-> slept, at |-> Some(now)]

GithubApiError(error) == Outcome("GithubApiError", <<>>, None, error)

NotRetryableGithubApiError(error) == Outcome("NotRetryableGithubApiError", <<>>, None, error)

\* a success value that leaves the link header out
GithubApiResponseNoLink(data, next) == Outcome("GithubApiResponse", data, None, <<>>)

GithubApiResponse(data, next) == Outcome("GithubApiResponse", data, next, <<>>)

\* an exception that leaves make_github_http_request (response.headers[...] of
\* an absent header)
Raised(error) == Outcome("raise", <<>>, None, error)

IsException(o) == o.kind \in {"GithubApiError", "NotRetryableGithubApiError"}

\* a handler of 504 that returns the error without the cool-down
handle_github_ban_no_sleep(r, u) ==
    Attempted(GithubApiError(<<"504", u, BAN_SLEEP_TIME>>), None)

handle_github_ban(r, u) ==
    Attempted(GithubApiError(<<"504", u, BAN_SLEEP_TIME>>), Some(BAN_SLEEP_TIME))

\* SECONDARY_LIMIT_SLEEP_TIME: a fixed pause the handlers never use
SECONDARY_LIMIT_SLEEP_TIME == 30

\* a fixed pause in place of the Retry-After header
SecondarySleepFixed(retry_after) == SECONDARY_LIMIT_SLEEP_TIME

\* sleep_time = int(response.headers[RETRY_AFTER])
SecondarySleepTime(retry_after) == retry_after

\* a pause until the reset time with no allowance for clock divergence
PrimarySleepNoPad(reset_time, now) == reset_time - now

\* sleep_time = reset_time - int(time.time()) + TIME_DIVERGENCE_CONST
PrimarySleepTime(reset_time, now) == reset_time - now + TIME_DIVERGENCE_CONST

handle_github_rate_limit(r, u, now) ==
    IF ~IsNone(r.message)
    THEN IF StartsWith(Val(r.message), SECONDARY_PREFIX)
         THEN IF IsNone(r.retry_after)
              THEN Attempted(Raised(<<"KeyError", "Retry-After">>), None)
              ELSE LET sleep_time == SecondarySleepTime(Val(r.retry_after))
                   IN  Attempted(GithubApiError(<<"secondary", u, sleep_time>>),
                                 Some(sleep_time))
         ELSE IF StartsWith(Val(r.message), PRIMARY_PREFIX)
         THEN IF IsNone(r.reset)
              THEN Attempted(Raised(<<"KeyError", "X-RateLimit-Reset">>), None)
              ELSE LET sleep_time == PrimarySleepTime(Val(r.reset), now)
                   IN  AttemptedAt(GithubApiError(<<"primary", u, sleep_time>>),
                                   Some(sleep_time), now)
         ELSE Attempted(GithubApiError(<<"Not a rate limiting error", u>>), None)
    ELSE Attempted(GithubApiError(<<"No message in response", u>>), None)

\* except aiohttp.ClientError: the class of the failure the request raised
isinstance_ClientError(r) == r.fail /\ IsNone(r.message)

\* except aiohttp.ClientError as e: return GithubApiError(error_message)
on_client_error(u) == Attempted(GithubApiError(<<"ClientError", u>>), None)

\* a last branch that gives up on the status: a not-retryable error
on_other_status_give_up(r, u) ==
    Attempted(NotRetryableGithubApiError(<<"HTTP code", r.status, u>>), None)

\* else: return GithubApiError(f"Request to {url} failed with HTTP code {status}...")
on_other_status(r, u) == Attempted(GithubApiError(<<"HTTP code", r.status, u>>), None)

\* the try block of make_github_http_request for response r to a GET of u
make_request_once(r, u, now) ==
    IF r.fail
    THEN IF isinstance_ClientError(r)
         THEN on_client_error(u)
         ELSE Attempted(Raised(Val(r.message) \o <<u>>), None)
    ELSE IF r.status = 200
    THEN Attempted(GithubApiResponse(r.data, r.next), None)
    ELSE IF r.status = 403
    THEN handle_github_rate_limit(r, u, now)
    ELSE IF r.status = 504
    THEN handle_github_ban(r, u)
    ELSE IF r.status \in NotRetryableStatuses
    THEN Attempted(NotRetryableGithubApiError(
                      IF IsNone(r.message) THEN <<"No message key", r.status>>
                                           ELSE Val(r.message)), None)
    ELSE on_other_status(r, u)

---------------------------------------------------------------------------
(* The retry decorator *)

\* a retry predicate that forgets the not-retryable class
retry_if_any_exception(o) == IsException(o)

\* retry=retry_if_result(lambda res: isinstance(res, Exception)
\*                       and not isinstance(res, NotRetryableGithubApiError))
\* (an attempt that raised is not retried: retry_if_result looks at results only)
retry_if_result(o) == IsException(o) /\ o.kind # "NotRetryableGithubApiError"

\* a stop condition that is one attempt late
stop_after_limit_passed(tries) == tries > GITHUB_API_TRIES_LIMIT

\* stop=stop_after_attempt(GITHUB_API_TRIES_LIMIT)
stop_after_attempt(tries) == tries >= GITHUB_API_TRIES_LIMIT

\* the decorator without its callback: RetryError is raised on exhaustion
raise_retry_error(last) == Raised(<<"RetryError">>)

\* retry_error_callback=return_last_value: retry_state.outcome.result()
return_last_value(last) == last

\* a request not yet started
NewCall ==
    [pc |-> "request", tries |-> 0, waits |-> 0, waited |-> 0, last |-> None,
     out |-> None, slept |-> None, at |-> None, ret |-> None]

\* one iteration of the decorator: attempt number c.tries + 1 gets response r
DoAttempt(c, r, u, now) ==
    LET a     == make_request_once(r, u, now)
        tries == c.tries + 1
        base  == [c EXCEPT !.tries = tries, !.last = Some(r),
                           !.out = Some(a.out), !.slept = a.slept, !.at = a.at]
    IN  IF a.out.kind = "raise"
        THEN [base EXCEPT !.pc = "raised", !.ret = Some(a.out)]
        ELSE IF ~retry_if_result(a.out)
        THEN [base EXCEPT !.pc = "returned", !.ret = Some(a.out)]
        ELSE IF stop_after_attempt(tries)
        THEN LET v == return_last_value(a.out)
             IN  [base EXCEPT !.pc = IF v.kind = "raise" THEN "raised" ELSE "returned",
                              !.ret = Some(v)]
        ELSE [base EXCEPT !.pc = "backoff"]

\* a retry that goes to the next attempt at once
DoBackoffNoWait(c) == [c EXCEPT !.pc = "request"]

\* wait=wait_fixed(OTHER_ERRORS_SLEEP_TIME) between two attempts
DoBackoff(c) ==
    [c EXCEPT !.pc = "request", !.waits = c.waits + 1,
              !.waited = c.waited + OTHER_ERRORS_SLEEP_TIME]

---------------------------------------------------------------------------
(* The item sink *)

\* os.path.join(data_folder, f"{owner}__{name}.jsonl")
\* a file name made of the repository name alone: f"{name}.jsonl"
DataPathNameOnly(owner, name) == name \o <<".", "j", "s", "o", "n", "l">>

DataPath(owner, name) ==
    owner \o <<"_", "_">> \o name \o <<".", "j", "s", "o", "n", "l">>

Paths == {DataPath(r[1], r[2]) : r \in Resources}

\* json.dumps(item) + "\n"
JsonLine(item) == <<item, "\n">>

\* a sink that keeps the items in memory and writes nothing yet
dump_data_buffered(fs, owner, name, items) == fs

\* a sink that leaves out the items whose record the file already holds
dump_data_dedup(fs, owner, name, items) ==
    LET data_path == DataPath(owner, name)
        Fresh(item) == \A k \in DOMAIN fs[data_path] : fs[data_path][k] # JsonLine(item)
        fresh == SelectSeq(items, Fresh)
    IN  [fs EXCEPT ![data_path] = fs[data_path] \o [j \in 1..Len(fresh) |-> JsonLine(fresh[j])]]

\* a sink that opens the file for writing instead: open(data_path, "w")
dump_data_truncate(fs, owner, name, items) ==
    [fs EXCEPT ![DataPath(owner, name)] = [j \in 1..Len(items) |-> JsonLine(items[j])]]

\* a sink that gives way between two records: its first record lands before
\* the line another writer wrote last
dump_data_yielding(fs, owner, name, items) ==
    LET data_path == DataPath(owner, name)
        old == fs[data_path]
        lines == [j \in 1..Len(items) |-> JsonLine(items[j])]
    IN  IF old = <<>> \/ lines = <<>>
        THEN [fs EXCEPT ![data_path] = old \o lines]
        ELSE [fs EXCEPT ![data_path] = SubSeq(old, 1, Len(old) - 1) \o <<lines[1]>>
                                          \o <<old[Len(old)]>> \o Tail(lines)]

\* dump_data / dump_repo_data_to_jsonl: open(data_path, "a"), one line per item
dump_data(fs, owner, name, items) ==
    LET data_path == DataPath(owner, name)
    IN  [fs EXCEPT ![data_path] = fs[data_path] \o [j \in 1..Len(items) |-> JsonLine(items[j])]]

\* the history of the data folder after dump_data(owner, name, items)
LogCall(h, owner, name, items) ==
    [h EXCEPT !.calls[DataPath(owner, name)] =
                 Append(@, [owner |-> owner, name |-> name, items |-> items]),
              !.n = h.n + 1]

\* the history of a data folder nothing was dumped to yet
NewHist(fs) ==
    [prior |-> fs, calls |-> [p \in DOMAIN fs |-> <<>>], n |-> 0,
     parsed |-> [p \in DOMAIN fs |-> None], requests |-> 0]

\* the history after a request that took tries HTTP requests is over
LogRequests(h, tries) == [h EXCEPT !.requests = h.requests + tries]

---------------------------------------------------------------------------
(* The walker: process_repo / _collect_repo_data, from one request's return *)
(* to the next request                                                     *)

N == Len(repos)

Items == 1..N

\* a check that sees the not-retryable class only
isinstance_NotRetryable(o) == o.kind = "NotRetryableGithubApiError"

\* isinstance(github_api_response_or_error, Exception)
isinstance_Exception(o) == IsException(o)

\* a walker that keeps its URL while the page has a next link
AdvanceStuck(current_url, response) ==
    IF IsNone(response.next) THEN None ELSE Some(current_url)

\* a walker that builds the next URL from its own page counter, two pages on
AdvanceBuilt(current_url, response) ==
    IF IsNone(response.next)
    THEN None
    ELSE Some(<<current_url[1], current_url[2], current_url[3] + 2>>)

\* a walker that goes back to the first page while the page has a next link
AdvanceToStart(current_url, response) ==
    IF IsNone(response.next) THEN None ELSE Some(<<current_url[1], current_url[2], 1>>)

\* current_url = github_api_response_or_error.headers.get("next", None)
Advance(current_url, response) == response.next

\* the task of work item i has ended: as_completed hands it over next
Finish(s, i) == [s EXCEPT !.finished = Append(s.finished, i)]

\* item i's request has reached state c (after an attempt); h is the
\* history up to that request
WalkerMove(i, c, h) ==
    LET owner == repos[i][1]
        name  == repos[i][2]
    IN  /\ call' = [call EXCEPT ![i] = c]
        /\ CASE c.pc = "backoff" ->
                  /\ hist' = h
                  /\ UNCHANGED <<st, url, res, files, sched>>
             [] c.pc = "raised" ->
                  \* the exception leaves process_repo
                  /\ st' = [st EXCEPT ![i] = "raised"]
                  /\ sched' = Finish(sched, i)
                  /\ hist' = h
                  /\ UNCHANGED <<url, res, files>>
             [] c.pc = "returned" /\ isinstance_Exception(Val(c.ret)) ->
                  \* return github_api_response_or_error
                  /\ st' = [st EXCEPT ![i] = "done"]
                  /\ res' = [res EXCEPT ![i] = c.ret]
                  /\ sched' = Finish(sched, i)
                  /\ hist' = h
                  /\ UNCHANGED <<url, files>>
             [] c.pc = "returned" /\ ~isinstance_Exception(Val(c.ret)) ->
                  LET response == Val(c.ret)
                      current_url == Advance(Val(url[i]), response)
                  IN  /\ files' = dump_data(files, owner, name, response.data)
                      /\ hist' = LogCall(h, owner, name, response.data)
                      /\ url' = [url EXCEPT ![i] = current_url]
                      /\ IF IsNone(current_url)
                         THEN /\ st' = [st EXCEPT ![i] = "done"]
                              /\ sched' = Finish(sched, i)
                         ELSE UNCHANGED <<st, sched>>
                      /\ UNCHANGED res

WalkerStep(i, c) == WalkerMove(i, c, hist)

\* one attempt of item i's current request (a new request when the last returned)
Attempt(i) ==
    /\ st[i] = "run"
    /\ call[i].pc \in {"request", "returned"}
    /\ \E r \in Responses(Val(url[i])), now \in Times :
          LET c == IF call[i].pc = "returned" THEN NewCall ELSE call[i]
          IN  WalkerStep(i, DoAttempt(c, r, Val(url[i]), now))
    /\ UNCHANGED <<github_tokens, repos, batch_size, chain, tok>>

\* the fixed wait of the decorator before the next attempt
Backoff(i) ==
    /\ st[i] = "run"
    /\ call[i].pc = "backoff"
    /\ call' = [call EXCEPT ![i] = DoBackoff(call[i])]
    /\ UNCHANGED <<github_tokens, repos, batch_size, chain, st, tok, url, res, files, sched,
                   hist>>

---------------------------------------------------------------------------
(* The scheduler *)

\* a slice one item too long: repos[i : i + batch_size + 1]
ChunkEndOffByOne(lo) ==
    IF IsNone(batch_size) THEN N
    ELSE IF lo + Val(batch_size) < N THEN lo + Val(batch_size) ELSE N

\* a scheduler that takes one item at a time, with or without a batch size
ChunkEndOneByOne(lo) == lo

\* repos[i : i + batch_size] for the chunk that starts at lo (1-based); the
\* whole list without batching
ChunkEnd(lo) ==
    IF IsNone(batch_size) THEN N
    ELSE IF lo + Val(batch_size) - 1 < N THEN lo + Val(batch_size) - 1 ELSE N

\* enumerate(repos, start=1): the index is one too high
TokenForFromOne(i, lo) == github_tokens[((i - lo + 1) % Len(github_tokens)) + 1]

\* the chunk's own position in the list used for all its items
TokenForChunkStart(i, lo) == github_tokens[((lo - 1) % Len(github_tokens)) + 1]

\* the index counted over the whole work list instead of the chunk
TokenForGlobal(i, lo) == github_tokens[((i - 1) % Len(github_tokens)) + 1]

\* for i, (owner, name) in enumerate(repos): github_tokens[i % len(github_tokens)]
\* (i counts from 0 within the list _process_repos was given)
TokenFor(i, lo) == github_tokens[((i - lo) % Len(github_tokens)) + 1]

\* a group that takes in every item from lo on, whatever the batch size
InGroupToEnd(i, lo) == i >= lo

InGroup(i, lo) == i >= lo /\ i <= ChunkEnd(lo)

\* a scheduler that takes the chunk off the front of the list it was given
AfterPop(list, lo, hi) == SubSeq(list, hi - lo + 2, Len(list))

\* repos[i : i + batch_size] and enumerate(repos) build new objects: the list
\* they read is the same after them
AfterSlice(list, lo, hi) == list

\* _process_repos up to its first await: the coroutines of the chunk are
\* created, each with its token, and handed to asyncio.as_completed
Launch(lo) ==
    /\ st' = [i \in Items |-> IF InGroup(i, lo) THEN "run" ELSE st[i]]
    /\ tok' = [i \in Items |-> IF InGroup(i, lo) THEN Some(TokenFor(i, lo)) ELSE tok[i]]
    /\ url' = [i \in Items |->
                 IF InGroup(i, lo) THEN Some(StartUrl(repos[i][1], repos[i][2])) ELSE url[i]]
    /\ sched' = [sched EXCEPT !.pc = "await", !.lo = lo, !.hi = ChunkEnd(lo),
                              !.finished = <<>>, !.consumed = 0, !.processed = <<>>]
    /\ repos' = AfterSlice(repos, lo, ChunkEnd(lo))

\* a scheduler that raises the Exception a task returned
AwaitRaisesReturned(j) == st[j] = "raised" \/ ~IsNone(res[j])

\* `await repositories_future` raises exactly when the task raised; a value the
\* task returned, an Exception object included, is a value
AwaitRaises(j) == st[j] = "raised"

\* awaiting the coroutines one after the other, in the order of the list
NextInListOrder(s) == s.lo + s.consumed

\* for repositories_future in asyncio.as_completed(...): the task that
\* finished earliest among those not yet awaited
NextResult(s) == s.finished[s.consumed + 1]

\* process_repos / process_repositories(_in_batches) is called
StartRun ==
    /\ sched.pc = "idle"
    /\ Launch(1)
    /\ UNCHANGED <<github_tokens, batch_size, chain, res, call, files, hist>>

\* `await repositories_future` returns or raises for the next finished task
Consume ==
    /\ sched.pc = "await"
    /\ sched.consumed < Len(sched.finished)
    /\ LET j == NextResult(sched)
           s == [sched EXCEPT !.consumed = sched.consumed + 1,
                              !.processed = Append(sched.processed, j)]
       IN  IF AwaitRaises(j)
           THEN \* the exception leaves the scheduler and asyncio.run, which
                \* cancels the tasks still running
                /\ sched' = [s EXCEPT !.pc = "raised"]
                /\ st' = [i \in Items |-> IF st[i] = "run" THEN "cancelled" ELSE st[i]]
                /\ UNCHANGED <<tok, url, repos>>
           ELSE IF sched.consumed + 1 < sched.hi - sched.lo + 1
           THEN \* the task's value is dropped; wait for the next one
                /\ sched' = s
                /\ UNCHANGED <<st, tok, url, repos>>
           ELSE IF sched.hi < N
           THEN \* the chunk is done: the next one
                Launch(sched.hi + 1)
           ELSE \* the last chunk is done: return None
                /\ sched' = [s EXCEPT !.pc = "returned", !.ret = None]
                /\ UNCHANGED <<st, tok, url, repos>>
    /\ UNCHANGED <<github_tokens, batch_size, chain, res, call, files, hist>>

---------------------------------------------------------------------------
(* One whole request as a step: the decorator's loop run to its end *)

\* make_github_http_request(http_session, github_token, u) answered by the
\* responses of script, one per attempt
RECURSIVE RunCall(_, _, _, _)
RunCall(c, script, u, now) ==
    IF c.pc \in {"returned", "raised"} \/ script = <<>>
    THEN c
    ELSE LET c1 == DoAttempt(c, Head(script), u, now)
         IN  IF c1.pc = "backoff"
             THEN RunCall(DoBackoff(c1), Tail(script), u, now)
             ELSE c1

ServerError == Response(FALSE, 500, None, None, None, None, <<>>)

NotFound == Response(FALSE, 404, Some(<<"Not Found">>), None, None, None, <<>>)

SecondaryLimitNoHeader ==
    Response(FALSE, 403, Some(<<SECONDARY_PREFIX, " Please wait.">>), None, None, None, <<>>)

\* the server's answers to the attempts of one request for u
Scripts(u) ==
    { <<OkResponse(u)>>,
      <<NotFound>>,
      <<SecondaryLimitNoHeader>>,
      [j \in 1..GITHUB_API_TRIES_LIMIT |-> ServerError] }

\* item i's walk from one request to the next
TaskStep(i) ==
    /\ st[i] = "run"
    /\ \E script \in Scripts(Val(url[i])), now \in Times :
          WalkerStep(i, RunCall(NewCall, script, Val(url[i]), now))
    /\ UNCHANGED <<github_tokens, repos, batch_size, chain, tok>>

---------------------------------------------------------------------------
(* Spec: one work item, attempt by attempt *)

TokenSeq == <<"t1", "t2", "t3", "t4">>

TokenList(k) == SubSeq(TokenSeq, 1, k)

ResourceSeq == << <<<<"a">>, <<"x">>>>, <<<<"a">>, <<"y">>>>, <<<<"a">>, <<"z">>>> >>

\* a work list of n resources
RepoList(n) == [i \in 1..n |-> ResourceSeq[((i - 1) % Len(ResourceSeq)) + 1]]

OldLine == <<"old", "\n">>

NoFiles == [p \in Paths |-> <<>>]

InitTasks ==
    /\ st = [i \in Items |-> "new"]
    /\ tok = [i \in Items |-> None]
    /\ url = [i \in Items |-> None]
    /\ res = [i \in Items |-> None]
    /\ call = [i \in Items |-> NewCall]
    /\ sched = [pc |-> "idle", lo |-> 1, hi |-> 0, finished |-> <<>>, consumed |-> 0,
                processed |-> <<>>, ret |-> None]

Init ==
    /\ github_tokens = TokenList(1)
    /\ \E r \in Resources : 
          /\ repos = <<r>>
          /\ \E old \in {<<>>, <<OldLine>>} : 
                files = [NoFiles EXCEPT ![DataPath(r[1], r[2])] = old]
    /\ hist = NewHist(files)
    /\ batch_size = None
    /\ chain \in 1..MaxPages
    /\ InitTasks

Next ==
    \/ StartRun
    \/ \E i \in Items : Attempt(i)
    \/ \E i \in Items : Backoff(i)
    \/ Consume

Spec == Init /\ [][Next]_vars

---------------------------------------------------------------------------
(* Properties of the request executor and the walker (Spec) *)

ErrorKinds == {"GithubApiError", "NotRetryableGithubApiError"}

\* the output stream of work item i
FileOf(i) == files[DataPath(repos[i][1], repos[i][2])]

\* the lines of pages 1..p of a resource, in page order and item order
RECURSIVE PagesLines(_, _, _)
PagesLines(owner, name, p) ==
    IF p = 0 THEN <<>>
    ELSE PagesLines(owner, name, p - 1)
         \o [j \in 1..ItemsPerPage |-> << <<owner, name, p, j>>, "\n" >>]

\* the response of the last attempt of item i's request, if it had one
HasLast(i) == ~IsNone(call[i].last)

LastResponse(i) == Val(call[i].last)

\* C1: as soon as an attempt receives 404, 422, 409 or 451 the request returns a
\* NotRetryableGithubApiError and no further attempt (nor wait) is made; the
\* walker ends with that error.
C1_NotRetryableStops ==
    \A i \in Items :
        (HasLast(i) /\ ~LastResponse(i).fail
            /\ LastResponse(i).status \in {404, 422, 409, 451})
        => /\ call[i].pc = "returned"
           /\ Val(call[i].ret).kind = "NotRetryableGithubApiError"
           /\ st[i] = "done"
           /\ res[i] = call[i].ret
           /\ ~ENABLED Attempt(i)
           /\ ~ENABLED Backoff(i)

\* a 404 as the first response: one HTTP call, and the task is over
C1_Witness ==
    \E i \in Items :
        /\ HasLast(i) /\ LastResponse(i).status = 404
        /\ call[i].tries = 1
        /\ st[i] = "done"

\* C2: one request sends at most 10 HTTP requests.
C2_AtMostTenAttempts == \A i \in Items : call[i].tries <= 10

C2_Witness == \E i \in Items : call[i].tries = 10 /\ call[i].pc = "returned"

Dumped(i) == IF IsNone(url[i]) THEN chain ELSE Val(url[i])[3] - 1

\* C4: the walker hands the pages to the sink in chain order, each once, and
\* returns None exactly when it has consumed the page without a next link.
C4_PagesInChainOrder ==
    \A i \in Items :
        st[i] # "new"
        => /\ \E old \in {<<>>, <<OldLine>>} :
                 FileOf(i) = old \o PagesLines(repos[i][1], repos[i][2], Dumped(i))
           /\ ~IsNone(url[i]) => Val(url[i])[3] \in 1..chain
           /\ IsNone(url[i]) <=> (st[i] = "done" /\ IsNone(res[i]))

\* a chain of three pages walked to its end, the last request answered at once
C4_Witness ==
    \E i \in Items :
        /\ chain = 3
        /\ st[i] = "done" /\ IsNone(res[i])
        /\ call[i].tries = 1
        /\ FileOf(i) = PagesLines(repos[i][1], repos[i][2], 3)

\* C5: an error outcome for page j ends the walk with that error: no further
\* request, no further append, and pages 1..j-1 stay in the stream.
C5_ErrorStopsWalk ==
    \A i \in Items :
        (call[i].pc = "returned" /\ Val(call[i].ret).kind \in ErrorKinds)
        => /\ st[i] = "done"
           /\ res[i] = call[i].ret
           /\ ~ENABLED Attempt(i)
           /\ ~ENABLED Backoff(i)
           /\ \E old \in {<<>>, <<OldLine>>} :
                 FileOf(i) = old \o PagesLines(repos[i][1], repos[i][2], Val(url[i])[3] - 1)

\* an error on page 2, page 1 already written
C5_Witness ==
    \E i \in Items :
        /\ st[i] = "done" /\ ~IsNone(res[i])
        /\ Val(url[i])[3] = 2
        /\ FileOf(i) = <<OldLine>> \o PagesLines(repos[i][1], repos[i][2], 1)

---------------------------------------------------------------------------
(* SpecSched: a work list, request by request *)

InitSched ==
    /\ \E k \in 1..MaxTokens : github_tokens = TokenList(k)
    /\ \/ /\ batch_size = None
          /\ \E n \in 1..MaxParallel : repos = RepoList(n)
       \/ /\ \E b \in 1..MaxBatch : batch_size = Some(b)
          /\ \E n \in 1..MaxRepos : repos = RepoList(n)
    /\ chain \in 1..SchedPages
    /\ files = NoFiles
    /\ hist = NewHist(files)
    /\ InitTasks

NextSched ==
    \/ StartRun
    \/ \E i \in Items : TaskStep(i)
    \/ Consume

SpecSched == InitSched /\ [][NextSched]_vars

---------------------------------------------------------------------------
(* Properties of the scheduler (SpecSched) *)

Launched(i) == st[i] # "new"

\* the chunk of work item i (0-based) for batch size b
ChunkOf(i, b) == (i - 1) \div b

\* the token at 0-based position x of the credential list
TokenAt(x) == Some(github_tokens[x + 1])

\* C6: without batching, the task of the item at index i (0-based) is started
\* with credentials[i mod k], whatever order the tasks finish in.
C6_RoundRobinUnbatched ==
    IsNone(batch_size)
    => \A i \in Items :
          Launched(i) => tok[i] = TokenAt((i - 1) % Len(github_tokens))

\* three items on two tokens, finished in another order than submitted
C6_Witness ==
    /\ IsNone(batch_size)
    /\ N = 3 /\ Len(github_tokens) = 2
    /\ sched.finished = <<3, 1, 2>>
    /\ tok[3] = Some("t1") /\ tok[2] = Some("t2")

C8_ChunksSequential ==
    ~IsNone(batch_size)
    => \A i, j \in Items :
          /\ (ChunkOf(i, Val(batch_size)) = ChunkOf(j, Val(batch_size)) /\ Launched(i))
                => Launched(j)
          /\ (ChunkOf(i, Val(batch_size)) < ChunkOf(j, Val(batch_size)) /\ Launched(j))
                => st[i] = "done"

\* B = 2 and four items: {0,1} over, {2,3} in flight together
C8_Witness ==
    /\ batch_size = Some(2)
    /\ N = 4
    /\ st[1] = "done" /\ st[2] = "done"
    /\ st[3] = "run" /\ st[4] = "run"

\* C9: a task that ends with a returned error does not make the scheduler
\* raise, does not cancel a sibling and does not stop the run: the scheduler
\* raises, and tasks are cancelled, only when a task raised; while none has,
\* the run can go on until it returns, and it returns after every task ended.
C9_ErrorsDoNotAbort ==
    /\ sched.pc = "raised" => \E j \in Items : st[j] = "raised"
    /\ \A i \in Items : st[i] = "cancelled" => \E j \in Items : st[j] = "raised"
    /\ sched.pc = "returned" => \A i \in Items : st[i] = "done"
    /\ ((\A j \in Items : st[j] # "raised") /\ sched.pc # "returned")
          => ENABLED (StartRun \/ Consume \/ \E i \in Items : TaskStep(i))

\* a not-retryable error in one chunk, an exhausted request in a later one, a
\* clean walk after them, and the run has returned
C9_Witness ==
    /\ sched.pc = "returned"
    /\ batch_size = Some(1)
    /\ N = 3
    /\ ~IsNone(res[1]) /\ Val(res[1]).kind = "NotRetryableGithubApiError"
    /\ ~IsNone(res[2]) /\ Val(res[2]).kind = "GithubApiError" /\ call[2].tries = 10
    /\ IsNone(res[3])

\* C10 as stated: after the run, the error of every failed task is part of
\* what the scheduler gives its caller.
C10_ErrorsSurfaced ==
    sched.pc = "returned"
    => \A i \in Items :
          ~IsNone(res[i])
          => \E x \in 1..Len(sched.ret) : sched.ret[x] = <<i, Val(res[i])>>

---------------------------------------------------------------------------
(* SpecSink: the item sink alone.  Every step is one dump_data call, for   *)
(* any resource of SinkResources and any item list of SinkItemLists.       *)

\* calls of one behaviour
MaxCalls == 2

\* owners and repository names as character sequences, some with "_"
SinkOwners == {<<"a">>, <<"b">>, <<"a", "_">>}

SinkNames == {<<"a">>, <<"b">>, <<"_", "a">>, <<"a", ".", "b">>}

SinkResources == SinkOwners \X SinkNames

SinkPaths == {DataPath(r[1], r[2]) : r \in SinkResources}

SinkItemLists == {<<>>, <<"i1">>, <<"i2", "i1">>}

Dump ==
    /\ hist.n < MaxCalls
    /\ \E r \in SinkResources, items \in SinkItemLists :
          /\ files' = dump_data(files, r[1], r[2], items)
          /\ hist' = LogCall(hist, r[1], r[2], items)
    /\ UNCHANGED <<github_tokens, repos, batch_size, chain, st, tok, url, res, call, sched>>

\* filename.split(".")[0]
BeforeFirstDot(str) ==
    IF \E k \in DOMAIN str : str[k] = "."
    THEN SubSeq(str, 1, (CHOOSE k \in DOMAIN str :
                            str[k] = "." /\ \A j \in 1..(k - 1) : str[j] # ".") - 1)
    ELSE str

\* str.split("__"): the pieces between the occurrences of "__", found from
\* the left and not overlapping
RECURSIVE SplitDunder(_)
SplitDunder(str) ==
    LET At(k) == k < Len(str) /\ str[k] = "_" /\ str[k + 1] = "_"
    IN  IF \E k \in DOMAIN str : At(k)
        THEN LET k == CHOOSE x \in DOMAIN str : At(x) /\ \A j \in 1..(x - 1) : ~At(j)
             IN  <<SubSeq(str, 1, k - 1)>> \o SplitDunder(SubSeq(str, k + 2, Len(str)))
        ELSE <<str>>

\* owner, name = filename.split(".")[0].split("__"): unpacking anything but
\* two pieces raises ValueError
ParseFileName(filename) ==
    LET parts == SplitDunder(BeforeFirstDot(filename))
    IN  IF Len(parts) = 2
        THEN [raised |-> FALSE, owner |-> parts[1], name |-> parts[2]]
        ELSE [raised |-> TRUE, owner |-> <<>>, name |-> <<>>]

\* _process_repos_data meets the file a dump created and parses its name
ReadBack ==
    /\ \E p \in DOMAIN files :
          /\ hist.calls[p] # <<>>
          /\ IsNone(hist.parsed[p])
          /\ hist' = [hist EXCEPT !.parsed[p] = Some(ParseFileName(p))]
    /\ UNCHANGED <<github_tokens, repos, batch_size, chain, st, tok, url, res, call, files,
                   sched>>

InitSink ==
    /\ github_tokens = <<>>
    /\ repos = <<>>
    /\ batch_size = None
    /\ chain = 1
    /\ \E old \in {<<>>, <<OldLine>>} : files = [p \in SinkPaths |-> old]
    /\ hist = NewHist(files)
    /\ InitTasks

NextSink ==
    \/ Dump
    \/ ReadBack

SpecSink == InitSink /\ [][NextSink]_vars

---------------------------------------------------------------------------
(* Properties of SpecSink.                                                 *)

\* the records of a sequence of dump_data calls: one per item, call by call
RECURSIVE CallLines(_)
CallLines(calls) ==
    IF calls = <<>>
    THEN <<>>
    ELSE LET items == Head(calls).items
         IN  [j \in 1..Len(items) |-> <<items[j], "\n">>] \o CallLines(Tail(calls))

\* C11: after any sequence of dump_data calls a file holds the content it
\* had before the first call followed by one record per item of every call,
\* in call order and in item order within a call; so the earlier content is
\* always a prefix of the file.
C11_AppendOnly ==
    \A p \in DOMAIN files :
        /\ files[p] = hist.prior[p] \o CallLines(hist.calls[p])
        /\ SubSeq(files[p], 1, Len(hist.prior[p])) = hist.prior[p]

C11_Witness ==
    \E p \in DOMAIN files :
        /\ hist.prior[p] = <<OldLine>>
        /\ Len(hist.calls[p]) = 2
        /\ hist.calls[p][1].items = <<"i2", "i1">>
        /\ hist.calls[p][2].items = <<"i1">>
        /\ files[p] = <<OldLine, <<"i2", "\n">>, <<"i1", "\n">>, <<"i1", "\n">>>>

\* the resources dump_data was called with on path p
CalledOn(p) == {<<hist.calls[p][k].owner, hist.calls[p][k].name>> : k \in DOMAIN hist.calls[p]}

HasUnderscore(str) == \E k \in DOMAIN str : str[k] = "_"

\* C12 as stated: two distinct (owner, name) pairs of non-empty strings
\* never append to the same file.
C12_DistinctPaths ==
    \A p \in DOMAIN files : \A r1, r2 \in CalledOn(p) : r1 = r2

\* C12 amended: two distinct (owner, name) pairs whose owners contain no
\* underscore never append to the same file.
C12_DistinctPathsPlainOwner ==
    \A p \in DOMAIN files : \A r1, r2 \in CalledOn(p) :
        (~HasUnderscore(r1[1]) /\ ~HasUnderscore(r2[1])) => r1 = r2

C12_Witness ==
    \E p1, p2 \in DOMAIN files :
        /\ p1 # p2
        /\ CalledOn(p1) = {<<<<"a">>, <<"_", "a">>>>}
        /\ CalledOn(p2) = {<<<<"a">>, <<"a">>>>}
        /\ Len(files[p1]) > Len(hist.prior[p1])
        /\ Len(files[p2]) > Len(hist.prior[p2])

---------------------------------------------------------------------------
(* Properties of one request (Spec), continued.                            *)

\* C13: when attempt j <= 10 of a request receives 200 (after j-1 retryable
\* errors, each followed by one wait), the request returns a success value
\* with that response's payload and its next link (absent when the response
\* has none), and j HTTP requests were sent.
C13_SuccessAfterRetries ==
    \A i \in Items :
        (HasLast(i) /\ ~LastResponse(i).fail /\ LastResponse(i).status = 200)
        => /\ call[i].pc = "returned"
           /\ Val(call[i].ret).kind = "GithubApiResponse"
           /\ Val(call[i].ret).data = LastResponse(i).data
           /\ Val(call[i].ret).next = LastResponse(i).next
           /\ call[i].tries \in 1..10
           /\ call[i].waits = call[i].tries - 1

\* nine retryable errors, then a 200 with a next link on the tenth attempt
C13_Witness ==
    \E i \in Items :
        /\ HasLast(i) /\ LastResponse(i).status = 200
        /\ call[i].tries = 10
        /\ ~IsNone(Val(call[i].ret).next)
        /\ Val(call[i].ret).data # <<>>

\* the last response of item i's request is a 403 whose message starts with prefix
Is403With(i, prefix) ==
    /\ HasLast(i) /\ ~LastResponse(i).fail /\ LastResponse(i).status = 403
    /\ ~IsNone(LastResponse(i).message)
    /\ StartsWith(Val(LastResponse(i).message), prefix)

\* the attempt gave a retryable error: it is the value returned when it was the
\* tenth attempt, and otherwise the request is in the wait before its next
\* attempt, or past that wait and about to make the attempt
RetryableOutcome(i) ==
    /\ Val(call[i].out).kind = "GithubApiError"
    /\ call[i].tries < 10 =>
          \/ call[i].pc = "backoff" /\ ENABLED Backoff(i)
          \/ call[i].pc = "request" /\ call[i].waits = call[i].tries /\ ENABLED Attempt(i)
    /\ call[i].tries = 10 => call[i].pc = "returned" /\ call[i].ret = call[i].out

\* C14: for a 403 whose message starts with "API rate limit exceeded" (and
\* that carries X-RateLimit-Reset) the attempt asks for a sleep of exactly
\* (X-RateLimit-Reset - current time) + 300 seconds and gives a retryable
\* error; with X-RateLimit-Reset = now + 5 that is 305 seconds.
C14_PrimarySleep ==
    \A i \in Items :
        (Is403With(i, PRIMARY_PREFIX) /\ ~IsNone(LastResponse(i).reset))
        => /\ ~IsNone(call[i].at)
           /\ call[i].slept = Some((Val(LastResponse(i).reset) - Val(call[i].at)) + 300)
           /\ (Val(LastResponse(i).reset) = Val(call[i].at) + 5) => call[i].slept = Some(305)
           /\ RetryableOutcome(i)

C14_Witness ==
    \E i \in Items :
        /\ Is403With(i, PRIMARY_PREFIX)
        /\ LastResponse(i).reset = Some(1005)
        /\ call[i].at = Some(1000)
        /\ call[i].slept = Some(305)
        /\ call[i].pc = "backoff"

\* C15: for a 403 whose message tells of the secondary rate limit (and that
\* carries Retry-After) the attempt asks for a sleep of exactly the header's
\* number of seconds and gives a retryable error.
C15_SecondarySleep ==
    \A i \in Items :
        (Is403With(i, SECONDARY_PREFIX) /\ ~IsNone(LastResponse(i).retry_after))
        => /\ call[i].slept = LastResponse(i).retry_after
           /\ IsNone(call[i].at)
           /\ RetryableOutcome(i)

C15_Witness ==
    \E i \in Items :
        /\ Is403With(i, SECONDARY_PREFIX)
        /\ LastResponse(i).retry_after = Some(60)
        /\ call[i].slept = Some(60)
        /\ call[i].pc = "backoff"
        /\ call[i].tries = 2

\* C16: for a 504 the attempt sleeps the fixed 600 seconds and gives a
\* retryable error; the attempt counts toward the ceiling of 10, so a 504 on
\* the tenth attempt ends the request with that error.
C16_BanCoolDown ==
    \A i \in Items :
        (HasLast(i) /\ ~LastResponse(i).fail /\ LastResponse(i).status = 504)
        => /\ call[i].slept = Some(600)
           /\ RetryableOutcome(i)
           /\ call[i].tries \in 1..10
           /\ call[i].tries = 10 => ~ENABLED Attempt(i) /\ ~ENABLED Backoff(i)

C16_Witness ==
    \E i \in Items :
        /\ HasLast(i) /\ LastResponse(i).status = 504
        /\ call[i].tries = 10
        /\ call[i].pc = "returned"
        /\ call[i].slept = Some(600)
        /\ st[i] = "done"

\* C17 as stated: every 403 makes the attempt return a retryable error as a
\* value, never raising, whatever the message and whether or not Retry-After
\* and X-RateLimit-Reset are present; a 403 with neither rate-limit message,
\* or with no message, adds no sleep.
C17_Every403ReturnsError ==
    \A i \in Items :
        (HasLast(i) /\ ~LastResponse(i).fail /\ LastResponse(i).status = 403)
        => /\ call[i].pc # "raised"
           /\ RetryableOutcome(i)
           /\ (~Is403With(i, SECONDARY_PREFIX) /\ ~Is403With(i, PRIMARY_PREFIX))
                 => IsNone(call[i].slept)

\* C18: every status other than 200, 403, 504, 404, 422, 409 and 451 makes the
\* attempt return a GithubApiError (not the not-retryable kind) that carries
\* the status and the URL, with no handler sleep, and the request is retried
\* up to the ceiling.
C18_OtherStatusRetried ==
    \A i \in Items :
        (HasLast(i) /\ ~LastResponse(i).fail
            /\ LastResponse(i).status \notin {200, 403, 504, 404, 422, 409, 451})
        => /\ Val(call[i].out).kind = "GithubApiError"
           /\ Val(call[i].out).error = <<"HTTP code", LastResponse(i).status, Val(url[i])>>
           /\ IsNone(call[i].slept)
           /\ call[i].pc # "raised"
           /\ RetryableOutcome(i)

C18_Witness ==
    \E i \in Items :
        /\ HasLast(i) /\ ~LastResponse(i).fail /\ LastResponse(i).status = 202
        /\ call[i].tries = 4
        /\ call[i].pc = "backoff"
        /\ IsNone(call[i].slept)

\* C19 as stated: every network or transport failure of an attempt makes the
\* attempt return a retryable error as a value, the request does not raise,
\* and it is retried up to the ceiling of 10 attempts.
C19_TransportFailureRetried ==
    \A i \in Items :
        (HasLast(i) /\ LastResponse(i).fail)
        => /\ call[i].pc # "raised"
           /\ RetryableOutcome(i)

\* C20: between two consecutive attempts of one request there is exactly one
\* wait of 10 seconds (besides any sleep of the failed attempt's handler), and
\* none after the final attempt, whether it succeeded, gave a not-retryable
\* error, raised or was the tenth: m attempts make m-1 waits.
C20_OneBackoffBetweenAttempts ==
    \A i \in Items :
        /\ call[i].waited = 10 * call[i].waits
        /\ call[i].pc = "request" => call[i].waits = call[i].tries
        /\ call[i].pc = "backoff" =>
              /\ call[i].waits = call[i].tries - 1
              /\ ~ENABLED Attempt(i)
        /\ call[i].pc \in {"returned", "raised"} =>
              /\ call[i].waits = call[i].tries - 1
              /\ ~ENABLED Backoff(i)

\* ten attempts, the first nine each followed by one wait, the last by none
C20_Witness ==
    \E i \in Items :
        /\ call[i].tries = 10
        /\ call[i].pc = "returned"
        /\ call[i].waits = 9
        /\ call[i].waited = 90
        /\ call[i].slept = Some(600)

---------------------------------------------------------------------------
(* Properties of the scheduler (SpecSched), continued.                     *)

\* the tasks launched and not yet ended
InFlight == {i \in Items : st[i] = "run"}

\* C21: in a run with batch size B, at every moment at most B tasks have
\* been launched and have not yet finished.
C21_AtMostBatchInFlight ==
    ~IsNone(batch_size) => Cardinality(InFlight) <= Val(batch_size)

\* B = 2 and three items: both tasks of the first chunk in flight, the third
\* not launched
C21_Witness ==
    /\ batch_size = Some(2)
    /\ N = 3
    /\ InFlight = {1, 2}
    /\ st[3] = "new"

\* C22 as stated: a launched task runs until it completes or fails on its
\* own; nothing in the run, another task's failure or a fault raised while
\* the scheduler awaits a sibling included, cancels it mid-flight.
C22_NoMidFlightCancel == \A i \in Items : st[i] # "cancelled"

\* C23: without batching all n tasks are launched before the scheduler
\* processes any result, so that all n are in flight together, and the
\* scheduler returns only after every one of the n tasks has finished.
C23_AllLaunchedTogether ==
    IsNone(batch_size)
    => /\ sched.pc # "idle" => \A i \in Items : Launched(i)
       /\ (sched.consumed > 0 \/ sched.finished # <<>>) => \A i \in Items : Launched(i)
       /\ sched.pc = "idle" => \A i \in Items : ~Launched(i)
       /\ sched.pc = "returned" =>
             /\ \A i \in Items : st[i] = "done"
             /\ sched.consumed = N
             /\ Len(sched.finished) = N

\* three tasks in flight together and no result processed yet
C23_Witness ==
    /\ IsNone(batch_size)
    /\ N = 3
    /\ InFlight = {1, 2, 3}
    /\ sched.consumed = 0
    /\ sched.pc = "await"

\* C24: within one concurrent group the scheduler processes the results in
\* the order the tasks finished, not the order they were submitted: a task
\* that finished earlier is processed earlier, whatever the input indices.
C24_FinishOrder ==
    /\ Len(sched.processed) <= Len(sched.finished)
    /\ \A x \in 1..Len(sched.processed) : sched.processed[x] = sched.finished[x]
    /\ Len(sched.processed) = sched.consumed

\* item 3 finished first and item 1 second: processed in that order, before
\* item 2 has finished
C24_Witness ==
    /\ N = 3
    /\ sched.finished = <<3, 1>>
    /\ sched.processed = <<3, 1>>
    /\ st[2] = "run"

\* item i's own walk met no failure: it neither raised nor returned an error
NoOwnFailure(i) == st[i] # "raised" /\ IsNone(res[i])

\* the run is over: the scheduler has returned or raised
RunOver == sched.pc \in {"returned", "raised"}

\* C25 as stated, for a work list of distinct resources: what a resource's
\* file holds at the end of the run depends on the server's answers to that
\* resource only; so a resource none of whose own requests failed ends with
\* its whole page chain, whatever the other resources were answered.
C25_OwnResponsesOnly ==
    (RunOver /\ N <= Len(ResourceSeq))
    => \A i \in Items :
          NoOwnFailure(i) => FileOf(i) = PagesLines(repos[i][1], repos[i][2], chain)

\* items i < j are the two walks of one resource, the second launched after
\* the first was over, and both went through the whole page chain
WalkedTwice(i, j) ==
    /\ i < j
    /\ {k \in Items : repos[k] = repos[i]} = {i, j}
    /\ ~IsNone(batch_size) /\ ChunkOf(i, Val(batch_size)) # ChunkOf(j, Val(batch_size))
    /\ st[i] = "done" /\ IsNone(res[i])
    /\ st[j] = "done" /\ IsNone(res[j])

\* C26: the harvest is not idempotent: after the walker ran twice for one
\* resource against the same page chain, the file holds every item's record
\* twice, the first walk's records followed by the second's; nothing is
\* deduplicated and the second walk starts from the first page again.
C26_SecondWalkDuplicates ==
    \A i, j \in Items :
        WalkedTwice(i, j)
        => LET lines == PagesLines(repos[i][1], repos[i][2], chain)
           IN  /\ FileOf(i) = lines \o lines
               /\ Len(FileOf(i)) = 2 * chain * ItemsPerPage

C26_Witness ==
    /\ N = 4
    /\ WalkedTwice(1, 4)
    /\ Len(FileOf(4)) = 2 * chain * ItemsPerPage
    /\ FileOf(4)[1] = FileOf(4)[chain * ItemsPerPage + 1]

---------------------------------------------------------------------------
(* Properties of the walker (Spec), continued.                             *)

\* C27: every URL the walker requests is the start URL of the caller (for
\* the first request) or exactly the next link of the page it has just
\* consumed: the URL it holds changes only in these two ways, and every
\* attempt is sent to the URL it holds.
C27_UrlsFromServerOnly ==
    [][\A i \in Items :
          /\ url'[i] # url[i] =>
                \/ /\ st[i] = "new"
                   /\ url'[i] = Some(<<repos[i][1], repos[i][2], 1>>)
                \/ /\ st[i] = "run"
                   /\ call'[i].pc = "returned"
                   /\ Val(call'[i].ret).kind = "GithubApiResponse"
                   /\ Val(call'[i].last).status = 200
                   /\ url'[i] = Val(call'[i].last).next
          /\ (call'[i] # call[i] /\ call'[i].pc # "request"
                /\ Val(call'[i].last).status = 200) =>
                Val(call'[i].last).data
                   = PageItems(Val(url[i])[1], Val(url[i])[2], Val(url[i])[3])]_vars

\* the walker asks for page 3 with the link page 2 gave it
C27_Witness ==
    \E i \in Items :
        /\ st[i] = "run"
        /\ url[i] = Some(<<repos[i][1], repos[i][2], 3>>)
        /\ HasLast(i) /\ LastResponse(i).status = 200
        /\ LastResponse(i).next = url[i]
        /\ call[i].pc = "returned"

\* the file of item i holds what it held before the run and pages 1..p
HoldsPages(fs, i, p) ==
    LET data_path == DataPath(repos[i][1], repos[i][2])
    IN  fs[data_path] = hist.prior[data_path] \o PagesLines(repos[i][1], repos[i][2], p)

\* C28: within one walk the append of page p is complete before the request
\* for page p+1 is issued: the step that moves the walker to page p+1 leaves
\* pages 1..p in the file, and every attempt of the request for page p+1
\* starts with pages 1..p in the file.
C28_AppendBeforeNextRequest ==
    [][\A i \in Items :
          /\ (st[i] = "run" /\ url'[i] # url[i] /\ ~IsNone(url'[i])) =>
                HoldsPages(files', i, Val(url'[i])[3] - 1)
          /\ (st[i] = "run" /\ call'[i] # call[i] /\ call'[i].pc # "request") =>
                HoldsPages(files, i, Val(url[i])[3] - 1)]_vars

\* the second attempt of the request for page 3 was made with pages 1 and 2
\* in the file
C28_Witness ==
    \E i \in Items :
        /\ st[i] = "run"
        /\ url[i] = Some(<<repos[i][1], repos[i][2], 3>>)
        /\ call[i].tries = 2 /\ call[i].pc = "backoff"
        /\ HoldsPages(files, i, 2)
        /\ hist.prior[DataPath(repos[i][1], repos[i][2])] = <<OldLine>>

---------------------------------------------------------------------------
(* Properties of the scheduler (SpecSched): frame.                         *)

\* C29: no step of the scheduler, of a walker or of a request changes the
\* credential list or the work list: at the end of a run they are what they
\* were at its start.
C29_ListsUnchanged == [][github_tokens' = github_tokens /\ repos' = repos]_vars

\* a batched run over three items and two tokens has returned, and the lists
\* are the ones it was started with
C29_Witness ==
    /\ sched.pc = "returned"
    /\ batch_size = Some(2)
    /\ repos = RepoList(3)
    /\ github_tokens = TokenList(2)
    /\ \A i \in Items : st[i] = "done"

---------------------------------------------------------------------------
(* SpecCommits: CommitsProvider.process_item for one work item.  The walk  *)
(* goes through the pages of commits; for every commit of a page it makes  *)
(* one more request, for the commit's diff, before it dumps the page.  A   *)
(* step is one page: its request, its diff requests and its dump.          *)

\* commit_data.get("url")
CommitDiffUrl(commit_data) == <<"diff">> \o commit_data

\* the 200 response to the request for a commit's diff
DiffResponse(commit_data) ==
    Response(FALSE, 200, None, None, None, None, <<"diff of", commit_data>>)

\* the server's answers to the attempts of the request for a commit's diff
DiffScript(commit_data, answer) ==
    CASE answer = "200" -> <<DiffResponse(commit_data)>>
      [] answer = "404" -> <<NotFound>>
      [] answer = "500" -> [j \in 1..GITHUB_API_TRIES_LIMIT |-> ServerError]

DiffAnswers == {"200", "404", "500"}

\* diff_response.data: an attribute GithubApiResponse has and the two
\* exception classes have not; reading it off an exception raises
\* AttributeError
DataOf(o) ==
    IF isinstance_Exception(o)
    THEN [raised |-> TRUE, data |-> <<"AttributeError", "data">>]
    ELSE [raised |-> FALSE, data |-> o.data]

\* for commit_data in commits_data: the diff requests of commits k.. of the
\* page, each answered as answers says; done holds the commits already given
\* their diff, c the last request made
RECURSIVE AddDiffs(_, _, _, _, _, _)
AddDiffs(commits_data, answers, k, done, c, now) ==
    IF k > Len(commits_data)
    THEN [raised |-> FALSE, data |-> done, call |-> c]
    ELSE LET commit_data == commits_data[k]
             u == CommitDiffUrl(commit_data)
             c1 == RunCall(NewCall, DiffScript(commit_data, answers[k]), u, now)
         IN  IF c1.pc = "raised"
             THEN [raised |-> TRUE, data |-> done, call |-> c1]
             ELSE LET d == DataOf(Val(c1.ret))
                  IN  IF d.raised
                      THEN [raised |-> TRUE, data |-> done, call |-> c1]
                      ELSE AddDiffs(commits_data, answers, k + 1,
                                    Append(done, <<commit_data, d.data>>), c1, now)

\* CommitsProvider.process_item: one turn of its while loop
CommitsStep(i) ==
    /\ st[i] = "run"
    /\ \E script \in Scripts(Val(url[i])), now \in Times,
          answers \in [1..ItemsPerPage -> DiffAnswers] :
          LET owner == repos[i][1]
              name  == repos[i][2]
              c     == RunCall(NewCall, script, Val(url[i]), now)
          IN  IF c.pc = "raised" \/ isinstance_Exception(Val(c.ret))
              THEN WalkerStep(i, c)
              ELSE LET response == Val(c.ret)
                       r == AddDiffs(response.data, answers, 1, <<>>, c, now)
                       current_url == Advance(Val(url[i]), response)
                   IN  /\ call' = [call EXCEPT ![i] = r.call]
                       /\ IF r.raised
                          THEN \* the AttributeError leaves process_item
                               /\ st' = [st EXCEPT ![i] = "raised"]
                               /\ sched' = Finish(sched, i)
                               /\ UNCHANGED <<url, res, files, hist>>
                          ELSE /\ files' = dump_data(files, owner, name, r.data)
                               /\ hist' = LogCall(hist, owner, name, r.data)
                               /\ url' = [url EXCEPT ![i] = current_url]
                               /\ IF IsNone(current_url)
                                  THEN /\ st' = [st EXCEPT ![i] = "done"]
                                       /\ sched' = Finish(sched, i)
                                  ELSE UNCHANGED <<st, sched>>
                               /\ UNCHANGED res
    /\ UNCHANGED <<github_tokens, repos, batch_size, chain, tok>>

NextCommits ==
    \/ StartRun
    \/ \E i \in Items : CommitsStep(i)
    \/ Consume

SpecCommits == Init /\ [][NextCommits]_vars

\* C30 as stated: in CommitsProvider.process_item every outcome of a request
\* is checked before its payload is used: whenever a request made during the
\* walk, a per-commit diff request included, ends in an error, the walk
\* returns that error as its result and does not raise.
C30_OutcomesChecked ==
    \A i \in Items :
        (call[i].pc = "returned" /\ isinstance_Exception(Val(call[i].ret)))
        => /\ st[i] = "done"
           /\ res[i] = call[i].ret

---------------------------------------------------------------------------
(* Properties of SpecSink, continued.                                      *)

\* C31 as stated: for every resource (owner, name), parsing the name of the
\* file the resource is dumped to, by the rule of _process_repos_data, gives
\* (owner, name) again.
C31_NamingRoundTrip ==
    \A p \in DOMAIN files :
        ~IsNone(hist.parsed[p])
        => \A r \in CalledOn(p) :
              /\ ~Val(hist.parsed[p]).raised
              /\ Val(hist.parsed[p]).owner = r[1]
              /\ Val(hist.parsed[p]).name = r[2]

---------------------------------------------------------------------------
(* Properties of the scheduler (SpecSched): credentials in batches.        *)

\* the 0-based positions of the credentials given to some launched item
AssignedPositions ==
    {x \in 0..(Len(github_tokens) - 1) : \E i \in Items : tok[i] = TokenAt(x)}

\* C32: in a batched run with batch size B and k credentials the item at
\* index i of the whole list is started with credentials[(i mod B) mod k],
\* the index starting at 0 again in every chunk; so when B < k the
\* credentials at positions B..k-1 are given to no item.
C32_IndexRestartsPerChunk ==
    ~IsNone(batch_size)
    => LET B == Val(batch_size)
           k == Len(github_tokens)
       IN  /\ \A i \in Items :
                 Launched(i) => Val(tok[i]) = github_tokens[(((i - 1) % B) % k) + 1]
           /\ B < k => AssignedPositions \cap (B..(k - 1)) = {}

\* B = 1 and two credentials: three items were run, all with the first one
C32_Witness ==
    /\ batch_size = Some(1)
    /\ Len(github_tokens) = 2
    /\ N = 3
    /\ sched.pc = "returned"
    /\ AssignedPositions = {0}

---------------------------------------------------------------------------
(* Properties of one request (Spec): sleeps and termination.               *)

\* C33 as stated: every sleep the rate-limit handling asks for has a
\* non-negative duration, whatever X-RateLimit-Reset, Retry-After and the
\* current time are, a reset time more than 300 seconds in the past included.
C33_SleepsNonNegative ==
    \A i \in Items : ~IsNone(call[i].slept) => Val(call[i].slept) >= 0

---------------------------------------------------------------------------
(* SpecWalk: one work item, one whole request a step, with the number of   *)
(* HTTP requests of the walk counted.  A request is answered by j-1        *)
(* retryable errors and then a 200 or a 404, or by ten retryable errors.   *)

\* j retryable errors in a row
Errors(j) == [x \in 1..j |-> ServerError]

\* the server's answers to the attempts of one request for u
WalkScripts(u) ==
    {Errors(j - 1) \o <<OkResponse(u)>> : j \in 1..GITHUB_API_TRIES_LIMIT}
    \cup {Errors(j - 1) \o <<NotFound>> : j \in 1..GITHUB_API_TRIES_LIMIT}
    \cup {Errors(j - 1) \o <<SecondaryLimitNoHeader>> : j \in 1..GITHUB_API_TRIES_LIMIT}
    \cup {Errors(GITHUB_API_TRIES_LIMIT)}

\* item i's walk from one request to the next, the HTTP requests counted
WalkStep(i) ==
    /\ st[i] = "run"
    /\ \E script \in WalkScripts(Val(url[i])), now \in Times :
          LET c == RunCall(NewCall, script, Val(url[i]), now)
          IN  WalkerMove(i, c, LogRequests(hist, c.tries))
    /\ UNCHANGED <<github_tokens, repos, batch_size, chain, tok>>

NextWalk ==
    \/ StartRun
    \/ \E i \in Items : WalkStep(i)
    \/ Consume

SpecWalk == Init /\ [][NextWalk]_vars

\* C34: for a chain of L pages from the start URL the walk ends, after at
\* most 10 * L HTTP requests, 10 at most for a page; it has no other bound:
\* while it runs it has made fewer than 10 * L requests and can make its
\* next one, and it is over only when a page had no next link or a request
\* ended in an error (returned or raised).
C34_WalkTerminates ==
    \A i \in Items :
        /\ hist.requests <= GITHUB_API_TRIES_LIMIT * chain
        /\ st[i] = "run" =>
              /\ hist.requests <= GITHUB_API_TRIES_LIMIT * (Val(url[i])[3] - 1)
              /\ Val(url[i])[3] <= chain
              /\ ENABLED WalkStep(i)
        /\ st[i] \in {"done", "raised"} =>
              /\ ~ENABLED WalkStep(i)
              /\ \/ IsNone(url[i]) /\ IsNone(res[i]) /\ IsNone(LastResponse(i).next)
                 \/ ~IsNone(res[i]) /\ isinstance_Exception(Val(res[i]))
                 \/ st[i] = "raised" /\ call[i].pc = "raised"

\* three pages, ten attempts each, the last one answered 200: 30 requests
C34_Witness ==
    \E i \in Items :
        /\ chain = 3
        /\ hist.requests = 30
        /\ st[i] = "done" /\ IsNone(res[i])
        /\ FileOf(i) = hist.prior[DataPath(repos[i][1], repos[i][2])]
                           \o PagesLines(repos[i][1], repos[i][2], 3)

---------------------------------------------------------------------------
(* SpecShared: one resource listed twice, its two tasks running at once    *)
(* and appending to the same file                                          *)

\* the pages of the shared resource's chain
SharedPages == 2

InitShared ==
    /\ github_tokens = TokenList(1)
    /\ \E r \in Resources : repos = <<r, r>>
    /\ batch_size = None
    /\ chain \in 1..SharedPages
    /\ files = NoFiles
    /\ hist = NewHist(files)
    /\ InitTasks

NextShared ==
    \/ StartRun
    \/ \E i \in Items : TaskStep(i)
    \/ Consume

SpecShared == InitShared /\ [][NextShared]_vars

\* the lines of page p of owner/name alone
PageLines(owner, name, p) ==
    [j \in 1..ItemsPerPage |-> JsonLine(PageItems(owner, name, p)[j])]

\* lines is a sequence of whole pages of owner/name, each page's records
\* next to one another and in the page's order
WholePages(lines, owner, name) ==
    /\ Len(lines) % ItemsPerPage = 0
    /\ \A b \in 0..((Len(lines) \div ItemsPerPage) - 1) :
          \E p \in 1..chain :
              SubSeq(lines, b * ItemsPerPage + 1, (b + 1) * ItemsPerPage)
                  = PageLines(owner, name, p)

\* C35: a page's append is atomic with respect to the tasks' interleaving:
\* with two tasks of the same resource running at once and writing the
\* same file, the file is at every moment a sequence of whole pages, the
\* records of a page contiguous; the tasks interleave between pages only.
C35_PagesContiguous ==
    \A i \in Items :
        /\ WholePages(FileOf(i), repos[i][1], repos[i][2])
        /\ Len(FileOf(i)) = hist.n * ItemsPerPage

\* both tasks wrote page 1 before one of them wrote page 2, the other still
\* running
C35_Witness ==
    \E i, j \in Items :
        /\ i # j /\ repos[i] = repos[j]
        /\ st[i] = "done" /\ st[j] = "run"
        /\ Dumped(i) = 2 /\ Dumped(j) = 1
        /\ FileOf(i) = PageLines(repos[i][1], repos[i][2], 1)
                           \o PageLines(repos[i][1], repos[i][2], 1)
                           \o PageLines(repos[i][1], repos[i][2], 2)

---------------------------------------------------------------------------
(* SpecClone: the clone task under the scheduler, and the scheduler run a  *)
(* second time over the same list and the same directory                   *)

\* the longest list of repositories to clone
CloneRepos == 3

\* the runs of the clone scheduler over one list
MaxRuns == 2

SaveDir == <<"repos">>

\* repo_dir = f"{save_dir}/{owner}__{name}"
RepoDir(owner, name) == SaveDir \o <<"/">> \o owner \o <<"_", "_">> \o name

RepoDirs == {RepoDir(r[1], r[2]) : r \in Resources}

\* a check that never finds the directory
never_exists(fs, repo_dir) == FALSE

\* os.path.exists(repo_dir): fs[repo_dir] is None while nothing is there
path_exists(fs, repo_dir) == ~IsNone(fs[repo_dir])

CloneError == GithubApiError(<<"clone failed">>)

\* what `await clone_repo(owner, name, github_token, repo_dir)` can leave
\* behind and return (an Optional[Exception]): a clone; nothing and an
\* error; a partial directory and an error
CloneOutcomes ==
    { [created |-> TRUE,  ret |-> None],
      [created |-> FALSE, ret |-> Some(CloneError)],
      [created |-> TRUE,  ret |-> Some(CloneError)] }

\* the history of the save directory at the start of run number run: what
\* it held then and the directories clone_repo was called for since
NewCloneHist(fs, run) == [prior |-> fs, run |-> run, attempted |-> {}]

\* process_repo / _clone_repo up to its await: the directory is looked up
CloneCheck(i) ==
    LET repo_dir == RepoDir(repos[i][1], repos[i][2])
    IN  /\ st[i] = "run" /\ call[i].pc = "request"
        /\ IF ~path_exists(files, repo_dir)
           THEN \* return await clone_repo(...)
                /\ call' = [call EXCEPT ![i].pc = "cloning"]
                /\ hist' = [hist EXCEPT !.attempted = @ \cup {repo_dir}]
                /\ UNCHANGED <<st, res, sched>>
           ELSE \* return None
                /\ st' = [st EXCEPT ![i] = "done"]
                /\ res' = [res EXCEPT ![i] = None]
                /\ sched' = Finish(sched, i)
                /\ UNCHANGED <<call, hist>>
        /\ UNCHANGED <<github_tokens, repos, batch_size, chain, tok, url, files>>

\* clone_repo is over and the task returns what it returned
CloneEnd(i) ==
    LET repo_dir == RepoDir(repos[i][1], repos[i][2])
    IN  /\ st[i] = "run" /\ call[i].pc = "cloning"
        /\ \E o \in CloneOutcomes :
              /\ files' = IF o.created
                          THEN [files EXCEPT ![repo_dir] = Some(<<".git">>)]
                          ELSE files
              /\ res' = [res EXCEPT ![i] = o.ret]
        /\ st' = [st EXCEPT ![i] = "done"]
        /\ call' = [call EXCEPT ![i].pc = "returned"]
        /\ sched' = Finish(sched, i)
        /\ UNCHANGED <<github_tokens, repos, batch_size, chain, tok, url, hist>>

\* the scheduler has returned and is run again over the same list
Rerun ==
    /\ sched.pc = "returned"
    /\ hist.run < MaxRuns
    /\ st' = [i \in Items |-> "new"]
    /\ tok' = [i \in Items |-> None]
    /\ url' = [i \in Items |-> None]
    /\ res' = [i \in Items |-> None]
    /\ call' = [i \in Items |-> NewCall]
    /\ sched' = [pc |-> "idle", lo |-> 1, hi |-> 0, finished |-> <<>>, consumed |-> 0,
                 processed |-> <<>>, ret |-> None]
    /\ hist' = NewCloneHist(files, hist.run + 1)
    /\ UNCHANGED <<github_tokens, repos, batch_size, chain, files>>

InitClone ==
    /\ github_tokens = TokenList(1)
    /\ \E n \in 1..CloneRepos : repos = RepoList(n)
    /\ batch_size \in {None, Some(MaxBatch)}
    /\ chain = 1
    /\ files \in [RepoDirs -> {None, Some(<<"old">>)}]
    /\ hist = NewCloneHist(files, 1)
    /\ InitTasks

NextClone ==
    \/ StartRun
    \/ \E i \in Items : CloneCheck(i)
    \/ \E i \in Items : CloneEnd(i)
    \/ Consume
    \/ Rerun

SpecClone == InitClone /\ [][NextClone]_vars

\* the target directory of item i
DirOf(i) == RepoDir(repos[i][1], repos[i][2])

\* C36: cloning is idempotent per resource: a clone task that finds its
\* target directory <save_dir>/<owner>__<name> makes no clone attempt and
\* ends with no error, and a second run of the scheduler over the same list
\* calls clone_repo for no directory the first run left behind.
C36_CloneIdempotent ==
    [][ /\ \A i \in Items :
              (st[i] = "run" /\ call[i].pc = "request" /\ path_exists(files, DirOf(i))
                 /\ (st'[i] # st[i] \/ call'[i] # call[i]))
              => /\ st'[i] = "done" /\ IsNone(res'[i])
                 /\ call'[i].pc = "request"
                 /\ hist'.attempted = hist.attempted
                 /\ files' = files
        /\ \A d \in RepoDirs :
              ~IsNone(hist'.prior[d]) => d \notin hist'.attempted
      ]_vars

\* the second run is over; the first one had cloned a directory that was
\* not there before it, and the second run called clone_repo for nothing
C36_Witness ==
    /\ hist.run = 2 /\ sched.pc = "returned"
    /\ hist.attempted = {}
    /\ \E i \in Items :
          /\ st[i] = "done" /\ IsNone(res[i])
          /\ hist.prior[DirOf(i)] = Some(<<".git">>)

---------------------------------------------------------------------------
(* SpecBranches: iterate_over_branches_and_init_last_commit_sha for one    *)
(* repository, in either mode                                              *)

\* the longest branch listing the server answers with
MaxBranches == 2

\* a JSON object is the sequence of its <<key, value>> pairs
Get(d, key) == d[CHOOSE k \in DOMAIN d : d[k][1] = key][2]

\* a branch of the listing; its "commit" is an object with a "sha" or null
Branch(branch_name, commit) == << <<"name", branch_name>>, <<"commit", commit>> >>

BranchObjects ==
    { Branch(<<"main">>, << <<"sha", <<"c1">>>> >>),
      Branch(<<"dev">>, <<>>) }

\* the listings of up to MaxBranches branches
BranchLists ==
    UNION { [1..n -> BranchObjects] : n \in 0..MaxBranches }

SpecificBranch == <<"main">>

\* branches_url = repo_branches_url.partition("{")[0]
BranchesUrl(owner, name) == <<owner, name, "branches">>

\* url = f"{GITHUB_API_URL}/repos/{owner}/{name}/commits/{branch}"
LastCommitUrl(owner, name, branch) == <<owner, name, "commits", branch>>

\* the server's answers to the attempts of the branches request
BranchesScripts ==
    { <<Response(FALSE, 200, None, None, None, None, data)>> : data \in BranchLists }
    \cup { <<ServerError, Response(FALSE, 200, None, None, None, None, data)>> :
              data \in BranchLists }
    \cup { <<NotFound>>, <<TimeoutFailure>>, <<SecondaryLimitNoHeader>>,
           Errors(GITHUB_API_TRIES_LIMIT) }

\* the 200 response to the request for a branch's last commit
CommitResponse ==
    Response(FALSE, 200, None, None, None, None, << <<"sha", <<"c1">>>> >>)

\* the server's answers to the attempts of the last-commit request
LastCommitScripts ==
    { Errors(j - 1) \o <<CommitResponse>> : j \in 1..GITHUB_API_TRIES_LIMIT }
    \cup { <<NotFound>>, <<TimeoutFailure>>, <<SecondaryLimitNoHeader>>,
           Errors(GITHUB_API_TRIES_LIMIT) }

GithubRepository(name, owner, branch, commit_sha, problems) ==
    [name |-> name, owner |-> owner, branch |-> branch, commit_sha |-> commit_sha,
     problems |-> problems]

\* str(error)
str(o) == o.error

\* get_repository_last_commit_sha, its request having ended as o
get_repository_last_commit_sha(o) ==
    IF isinstance_Exception(o) THEN o ELSE Get(o.data, "sha")

\* the else branch: the repository's specific (default) branch only
DefaultBranch(o, repo_name, repo_owner, repo_specific_branch) ==
    LET commit_sha_or_error == get_repository_last_commit_sha(o)
    IN  <<GithubRepository(
            repo_name, repo_owner, Some(repo_specific_branch),
            IF isinstance_Exception(o) THEN None ELSE Some(commit_sha_or_error),
            IF isinstance_Exception(o) THEN Some(str(commit_sha_or_error)) ELSE None)>>

\* the if branch: one record for each branch of the listing, or one for the
\* failed listing
AllBranches(o, repo_name, repo_owner) ==
    IF isinstance_Exception(o)
    THEN <<GithubRepository(repo_name, repo_owner, None, None, Some(str(o)))>>
    ELSE [k \in 1..Len(o.data) |->
            LET branch == o.data[k]
                branch_name == Get(branch, "name")
                commit_sha == IF Get(branch, "commit") # <<>>
                              THEN Some(Get(Get(branch, "commit"), "sha"))
                              ELSE None
            IN  GithubRepository(repo_name, repo_owner, Some(branch_name), commit_sha, None)]

\* iterate_over_branches_and_init_last_commit_sha, its one request having
\* ended as call c: what it returns, or that the request's exception left it
iterate_over_branches_and_init_last_commit_sha(c, repo_name, repo_owner, repo_specific_branch, process_all_branches) ==
    IF c.pc = "raised"
    THEN [raised |-> TRUE, repositories |-> <<>>]
    ELSE [raised |-> FALSE,
          repositories |->
             IF process_all_branches
             THEN AllBranches(Val(c.ret), repo_name, repo_owner)
             ELSE DefaultBranch(Val(c.ret), repo_name, repo_owner, repo_specific_branch)]

\* the mode of the call for item i, read off its URL
ProcessAllBranches(i) == Val(url[i])[3] = "branches"

\* the function is called for item i, in one mode or the other
BranchesStart(i) ==
    /\ st[i] = "new"
    /\ \E process_all_branches \in BOOLEAN :
          url' = [url EXCEPT ![i] =
                    IF process_all_branches
                    THEN Some(BranchesUrl(repos[i][1], repos[i][2]))
                    ELSE Some(LastCommitUrl(repos[i][1], repos[i][2], SpecificBranch))]
    /\ st' = [st EXCEPT ![i] = "run"]
    /\ tok' = [tok EXCEPT ![i] = Some(github_tokens[1])]
    /\ UNCHANGED <<github_tokens, repos, batch_size, chain, res, call, files, sched, hist>>

\* its request is made and answered, and the function returns
BranchesStep(i) ==
    /\ st[i] = "run"
    /\ \E script \in (IF ProcessAllBranches(i) THEN BranchesScripts ELSE LastCommitScripts),
          now \in Times :
          LET c == RunCall(NewCall, script, Val(url[i]), now)
              r == iterate_over_branches_and_init_last_commit_sha(
                       c, repos[i][2], repos[i][1], SpecificBranch, ProcessAllBranches(i))
          IN  /\ call' = [call EXCEPT ![i] = c]
              /\ res' = [res EXCEPT ![i] = Some(r)]
              /\ st' = [st EXCEPT ![i] = IF r.raised THEN "raised" ELSE "done"]
    /\ UNCHANGED <<github_tokens, repos, batch_size, chain, tok, url, files, sched, hist>>

NextBranches ==
    \/ \E i \in Items : BranchesStart(i)
    \/ \E i \in Items : BranchesStep(i)

SpecBranches == Init /\ [][NextBranches]_vars

\* the function's records for item i are as its mode and its request's
\* outcome require
RecordsAsRequired(i) ==
    LET r == Val(res[i])
        o == Val(call[i].ret)
    IN  IF ~ProcessAllBranches(i)
        THEN /\ Len(r.repositories) = 1
             /\ IsNone(r.repositories[1].commit_sha) <=> ~IsNone(r.repositories[1].problems)
        ELSE IF isinstance_Exception(o)
        THEN /\ Len(r.repositories) = 1
             /\ IsNone(r.repositories[1].branch)
             /\ IsNone(r.repositories[1].commit_sha)
             /\ ~IsNone(r.repositories[1].problems)
        ELSE /\ Len(r.repositories) = Len(o.data)
             /\ \A k \in 1..Len(o.data) :
                   /\ r.repositories[k].branch = Some(Get(o.data[k], "name"))
                   /\ IsNone(r.repositories[k].problems)

\* C37: iterate_over_branches_and_init_last_commit_sha never raises (or
\* returns) an error for a failed request: in default-branch mode it returns
\* exactly one record, its commit_sha None exactly when its problems are
\* set; in all-branches mode a failed listing gives exactly one record with
\* branch None, commit_sha None and problems set, and a successful listing
\* one record a branch, problems None.
C37_NeverRaises ==
    \A i \in Items :
        ~IsNone(res[i]) =>
            /\ ~Val(res[i]).raised
            /\ RecordsAsRequired(i)

====
